---------------------------- MODULE Spec2Model ----------------------------
(***************************************************************************)
(* A model of the news agent: the importance classifier and the filter     *)
(* stage (ai_summarizer.py), the four-stage pipeline over the news table   *)
(* (news_agent.py, database.py) and the scheduler (scheduler.py).          *)
(*                                                                         *)
(* Texts are sequences of tokens, so "" is << >> and concatenation is \o.  *)
(* The importance labels of the source are written in ASCII:               *)
(*   "HIGH" is '高', "MEDIUM" is '中', "LOW" is '低', "FAILED" is 'FAILED',  *)
(*   "OTHER" is any other string the language model may answer.            *)
(***************************************************************************)
EXTENDS Naturals, Integers, Sequences, FiniteSets, Bags, TLC

VARIABLES
    \* ---- one call of AISummarizer.analyze_news_importance
    cpc,             \* "idle" before the call, "returned" / "raised" after it
    news_content,    \* the argument of the call
    structured,      \* outcome of the structured-output model call
    response,        \* outcome of the json-mode model call, NotCalled if none
    analysis,        \* what the call gave back
    \* ---- one call of AISummarizer.filter_important_news
    fpc,             \* "idle", "loop", "returned", "raised"
    news_list,       \* the argument of the call
    i,               \* the loop index (1-based)
    important_news,  \* the list the loop builds
    verdicts,        \* importance the classifier answered for items 1..i-1
    \* ---- NewsAgent.run over the news table
    pc,              \* where the run is: "idle", a node of the graph, "END", "done"
    state,           \* the NewsAgentState of the run
    visits,          \* how often the graph entered each node, and END, in this run
    fetched,         \* what news_fetcher.get_processed_news did in this run
    saved_count,     \* the local saved_count of save_to_database_node
    pos,             \* the record save_to_database_node is at (1-based)
    news_table,      \* the rows of table news: a bag of rows
    table_at_start,  \* news_table when the run started
    report,          \* what NewsAgent.run returned
    runs,            \* calls of NewsAgent.run so far
    composed,        \* outcome of the digest model call of this run, NotCalled if none
    db_calls,        \* the calls of the DatabaseManager in this run, in order
    \* ---- the NewsScheduler singleton, its callers and its background threads
    is_running,      \* NewsScheduler.is_running
    stop_event,      \* NewsScheduler.stop_event is set
    scheduler_thread,\* NewsScheduler.scheduler_thread: 0 for None, else a thread
    jobs,            \* schedule.jobs: the registered jobs, each due or not
    threads,         \* the threads start() created, by number
    ctx,             \* where each caller of the scheduler is
    completed,       \* calls of run_news_agent_job that returned
    started,         \* calls of run_news_agent_job so far
    calls,           \* the scheduler operations called so far, in call order
    last_run,        \* how the last call of run_news_agent_job that returned went
    http,            \* the last answer of the run-once endpoint, NoneVal if none
    scheduler_running,   \* the global scheduler_running of the web server
    \* ---- one call of AISummarizer.merge_summaries
    mpc,             \* "idle" before the call, "returned" / "raised" after it
    existing_summary,    \* the arguments of the call
    new_summary,
    new_important_news,
    merge_reply,     \* outcome of the merge model call, NotCalled if none
    merged,          \* what the call gave back
    \* ---- one call of NewsFetcher.get_processed_news
    npc,             \* "idle", "loop", "returned"
    todo,            \* items of raw_news the loop has still to take
    raw_item,        \* the item of raw_news the loop took last
    processed_news   \* the list the loop builds

cvars == <<cpc, news_content, structured, response, analysis>>
fvars == <<fpc, news_list, i, important_news, verdicts>>
pvars == <<pc, state, visits, fetched, saved_count, pos, news_table, table_at_start,
           report, runs, composed, db_calls>>
svars == <<is_running, stop_event, scheduler_thread, jobs, threads, ctx, completed,
           started, calls, last_run, http, scheduler_running>>
mvars == <<mpc, existing_summary, new_summary, new_important_news, merge_reply, merged>>
nvars == <<npc, todo, raw_item, processed_news>>
vars == <<cvars, fvars, pvars, svars, mvars, nvars>>

-----------------------------------------------------------------------------
(* Bounds of the model *)

MaxReply == 3        \* tokens in one json-mode reply of the language model
MaxBatch == 2        \* news items in one batch
MaxRuns == 2         \* calls of NewsAgent.run
MaxCalls == 3        \* calls of the scheduler's operations
MaxJobRuns == 2      \* calls of run_news_agent_job
MaxFeed == 2         \* items in the list the feed answers

-----------------------------------------------------------------------------
(* Texts and the values the language model may answer *)

EmptyText == << >>
NoneVal == <<"<None>">>                  \* Python's None in an Optional[str]
Importances == {"HIGH", "MEDIUM", "LOW", "FAILED", "OTHER"}
Summaries == {<<"s1">>}
Keywords == {<<"k1">>}
Contents == {<<"c1">>, <<"c2">>}

Min(a, b) == IF a <= b THEN a ELSE b

\* text[:n]
Prefix(text, n) == SubSeq(text, 1, Min(n, Len(text)))

\* Python's  x or ''  on an Optional[str]
OrEmpty(x) == IF x = NoneVal \/ x = EmptyText THEN EmptyText ELSE x

-----------------------------------------------------------------------------
(* The structured-output call: structured_llm.invoke(messages).  Either it  *)
(* raises (transport, schema or parse failure), or it gives a NewsAnalysis *)
(* whose importance is any string and whose summary and keywords are       *)
(* Optional[str].                                                          *)

NewsAnalysis ==
    [ok : {TRUE}, importance : Importances,
     summary : Summaries \cup {NoneVal, EmptyText},
     keywords : Keywords \cup {NoneVal, EmptyText}]

StructuredFailure ==
    [ok |-> FALSE, importance |-> "OTHER", summary |-> NoneVal, keywords |-> NoneVal]

StructuredOutcomes == NewsAnalysis \cup {StructuredFailure}

(* The json-mode call: self.llm.invoke([HumanMessage(...)]).  Either it     *)
(* raises, or it answers a text: a sequence of tokens, "{" and "}", a junk  *)
(* token "x", and well-formed object members "key:value".                   *)

MemberTokens == {"imp:HIGH", "imp:MEDIUM", "imp:LOW", "imp:OTHER", "sum:s1", "kw:k1"}
Tokens == {"{", "}", "x"} \cup MemberTokens

MemberKey(tok) ==
    CASE tok \in {"imp:HIGH", "imp:MEDIUM", "imp:LOW", "imp:OTHER"} -> "importance"
      [] tok = "sum:s1" -> "summary"
      [] tok = "kw:k1" -> "keywords"

MemberValue(tok) ==
    CASE tok = "imp:HIGH" -> "HIGH"
      [] tok = "imp:MEDIUM" -> "MEDIUM"
      [] tok = "imp:LOW" -> "LOW"
      [] tok = "imp:OTHER" -> "OTHER"
      [] tok = "sum:s1" -> <<"s1">>
      [] tok = "kw:k1" -> <<"k1">>

TextsUpTo(n) == UNION {[1..k -> Tokens] : k \in 0..n}

NotCalled == [ok |-> FALSE, text |-> <<"<not called>">>]
ResponseFailure == [ok |-> FALSE, text |-> <<"<exception>">>]
Responses == {[ok |-> TRUE, text |-> t] : t \in TextsUpTo(MaxReply)} \cup {ResponseFailure}

\* re.search(r'\{.*}', response_text, re.DOTALL): the leftmost "{" that has a "}"
\* after it, up to the last "}" (the star is greedy); << >> when nothing matches.
re_search(response_text) ==
    LET lbs == {k \in 1..Len(response_text) : response_text[k] = "{"}
        rbs == {k \in 1..Len(response_text) : response_text[k] = "}"}
    IN  IF lbs = {} \/ rbs = {} THEN << >>
        ELSE LET first == CHOOSE k \in lbs : \A m \in lbs : k <= m
                 last == CHOOSE k \in rbs : \A m \in rbs : m <= k
             IN  IF first < last THEN SubSeq(response_text, first, last) ELSE << >>

\* json.loads(json_str) on a text that starts with "{" and ends with "}": the
\* members between them as a dict (a later member replaces an earlier one of
\* the same key); it raises when anything but members lies between them.
json_loads(json_str) ==
    LET inner == SubSeq(json_str, 2, Len(json_str) - 1)
        keys == {MemberKey(inner[k]) : k \in 1..Len(inner)}
        lastOf(key) == CHOOSE k \in 1..Len(inner) :
                           /\ MemberKey(inner[k]) = key
                           /\ \A m \in 1..Len(inner) : MemberKey(inner[m]) = key => m <= k
    IN  IF \E k \in 1..Len(inner) : inner[k] \notin MemberTokens
        THEN [raised |-> TRUE, value |-> << >>]
        ELSE [raised |-> FALSE,
              value |-> [key \in keys |-> MemberValue(inner[lastOf(key)])]]

\* a faulty variant of dict.get: the default, whatever the dict holds
GetAlwaysDefault(dict, key, default) == default

\* dict.get(key, default)
Get(dict, key, default) == IF key \in DOMAIN dict THEN dict[key] ELSE default

ErrorPrefixLen == 100

\* AISummarizer._analyze_with_json_mode: the verdict, or the exception it raises
\* (raised, with the exception's text in error).
_analyze_with_json_mode(content, resp) ==
    IF ~resp.ok
    THEN [raised |-> TRUE, error |-> <<"model call failed">>, value |-> << >>]
    ELSE LET response_text == resp.text
             json_match == re_search(response_text)
         IN  IF json_match # << >>
             THEN LET parsed == json_loads(json_match)
                  IN  IF parsed.raised
                      THEN [raised |-> TRUE, error |-> <<"JSONDecodeError">>, value |-> << >>]
                      ELSE [raised |-> FALSE, error |-> << >>,
                            value |-> [importance |-> Get(parsed.value, "importance", "LOW"),
                                       summary |-> Get(parsed.value, "summary", EmptyText),
                                       keywords |-> Get(parsed.value, "keywords", EmptyText)]]
             ELSE [raised |-> TRUE,
                   error |-> <<"no JSON in reply:">> \o Prefix(response_text, ErrorPrefixLen),
                   value |-> << >>]

\* a faulty variant of JsonModeGuarded: the inner try/except is missing
JsonModeUnguarded(content, resp) ==
    LET r == _analyze_with_json_mode(content, resp)
    IN  [raised |-> r.raised, value |-> r.value]

\* The except branch of analyze_news_importance around the json-mode attempt.
JsonModeGuarded(content, resp) ==
    LET r == _analyze_with_json_mode(content, resp)
    IN  IF r.raised
        THEN [raised |-> FALSE,
              value |-> [importance |-> "FAILED",
                         summary |-> <<"AI analysis failed:">> \o r.error,
                         keywords |-> <<"AI analysis failed">>]]
        ELSE [raised |-> FALSE, value |-> r.value]

\* AISummarizer.analyze_news_importance: raised tells whether an exception
\* leaves the call, value is the dict it returns, calls the model calls it made.
analyze_news_importance(content, st, resp) ==
    IF st.ok
    THEN [raised |-> FALSE,
          value |-> [importance |-> st.importance,
                     summary |-> OrEmpty(st.summary),
                     keywords |-> OrEmpty(st.keywords)],
          calls |-> <<"structured">>]
    ELSE LET r == JsonModeGuarded(content, resp)
         IN  [raised |-> r.raised, value |-> r.value, calls |-> <<"structured", "json">>]

-----------------------------------------------------------------------------
(* One call of analyze_news_importance, with the outcomes of its model     *)
(* calls drawn from StructuredOutcomes and Responses.                      *)

ClassifyInit ==
    /\ cpc = "idle"
    /\ news_content = EmptyText
    /\ structured = StructuredFailure
    /\ response = NotCalled
    /\ analysis = [raised |-> FALSE, value |-> << >>, calls |-> << >>]

Classified(content, st, resp) ==
    /\ news_content' = content
    /\ structured' = st
    /\ response' = resp
    /\ analysis' = analyze_news_importance(content, st, resp)
    /\ cpc' = IF analysis'.raised THEN "raised" ELSE "returned"

\* the structured-output call answers: the json-mode call is never made
AnalyzeStructured ==
    /\ cpc = "idle"
    /\ \E content \in Contents, st \in NewsAnalysis : Classified(content, st, NotCalled)
    /\ UNCHANGED <<fvars, pvars, svars, mvars, nvars>>

\* the structured-output call raises: the json-mode call is made
AnalyzeJsonMode ==
    /\ cpc = "idle"
    /\ \E content \in Contents, resp \in Responses :
           Classified(content, StructuredFailure, resp)
    /\ UNCHANGED <<fvars, pvars, svars, mvars, nvars>>

NextClassify == AnalyzeStructured \/ AnalyzeJsonMode

-----------------------------------------------------------------------------
(* filter_important_news, one loop iteration per step.                     *)

Items == {[title |-> <<"t1">>, content |-> <<"c1">>],
          [title |-> <<"t2">>, content |-> <<"c2">>]}

Batches == UNION {[1..k -> Items] : k \in 0..MaxBatch}

\* every result analyze_news_importance can give on a content
AnalysesOf ==
    [c \in Contents |->
        {analyze_news_importance(c, st, NotCalled) : st \in NewsAnalysis}
        \cup {analyze_news_importance(c, StructuredFailure, resp) : resp \in Responses}]

ImportantRecord(news, verdict) ==
    [original_title |-> news.title,
     original_content |-> news.content,
     importance |-> verdict.importance,
     summary |-> verdict.summary,
     keywords |-> verdict.keywords]

\* a faulty variant of LoopBody: the test  importance in ['中','高']  is dropped
LoopBodyKeepsAll(acc, news, verdict) ==
    IF verdict.importance = "FAILED" THEN acc
    ELSE Append(acc, ImportantRecord(news, verdict))

\* a faulty variant of LoopBody: the record is put in front of the list
LoopBodyPrepends(acc, news, verdict) ==
    IF verdict.importance = "FAILED" THEN acc
    ELSE IF verdict.importance \in {"MEDIUM", "HIGH"}
         THEN <<ImportantRecord(news, verdict)>> \o acc
         ELSE acc

\* the body of the for loop, after the classifier answered verdict for news:
\* the list important_news after the iteration, given the list before it
LoopBody(acc, news, verdict) ==
    IF verdict.importance = "FAILED" THEN acc
    ELSE IF verdict.importance \in {"MEDIUM", "HIGH"}
         THEN Append(acc, ImportantRecord(news, verdict))
         ELSE acc

FilterInit ==
    /\ fpc = "idle"
    /\ news_list = << >>
    /\ i = 1
    /\ important_news = << >>
    /\ verdicts = << >>

FilterCall ==
    /\ fpc = "idle"
    /\ \E batch \in Batches : news_list' = batch
    /\ i' = 1
    /\ important_news' = << >>
    /\ verdicts' = << >>
    /\ fpc' = "loop"
    /\ UNCHANGED <<cvars, pvars, svars, mvars, nvars>>

\* a faulty variant of FilterIteration: a FAILED verdict ends the loop
FilterIterationAborts ==
    /\ fpc = "loop"
    /\ i <= Len(news_list)
    /\ \E a \in AnalysesOf[news_list[i].content] :
           IF a.raised
           THEN /\ fpc' = "raised"
                /\ UNCHANGED <<i, important_news, verdicts>>
           ELSE /\ important_news' = LoopBody(important_news, news_list[i], a.value)
                /\ verdicts' = Append(verdicts, a.value.importance)
                /\ i' = i + 1
                /\ fpc' = IF a.value.importance = "FAILED" THEN "returned" ELSE "loop"
    /\ UNCHANGED <<news_list, cvars, pvars, svars, mvars, nvars>>

\* one iteration of the for loop: the classifier is called on item i
FilterIteration ==
    /\ fpc = "loop"
    /\ i <= Len(news_list)
    /\ \E a \in AnalysesOf[news_list[i].content] :
           IF a.raised
           THEN /\ fpc' = "raised"
                /\ UNCHANGED <<i, important_news, verdicts>>
           ELSE /\ important_news' = LoopBody(important_news, news_list[i], a.value)
                /\ verdicts' = Append(verdicts, a.value.importance)
                /\ i' = i + 1
                /\ fpc' = "loop"
    /\ UNCHANGED <<news_list, cvars, pvars, svars, mvars, nvars>>

FilterReturn ==
    /\ fpc = "loop"
    /\ i > Len(news_list)
    /\ fpc' = "returned"
    /\ UNCHANGED <<news_list, i, important_news, verdicts, cvars, pvars, svars, mvars, nvars>>

NextFilter == FilterCall \/ FilterIteration \/ FilterReturn

-----------------------------------------------------------------------------
(* The pipeline: NewsAgent.run drives the graph fetch_news -> analyze_news  *)
(* -> create_summary -> save_to_database over one NewsAgentState.           *)

Nodes == {"fetch_news", "analyze_news", "create_summary", "save_to_database"}

\* "今日暂无重要新闻。"
Sentinel == <<"no important news today">>

\* f"每日新闻总结 - {datetime.now().strftime('%Y-%m-%d')}"; every run of the
\* model happens on one date
summary_title == <<"daily news summary - ", "today">>

\* the NewsAgentState that run() starts from
initial_state ==
    [raw_news |-> << >>, important_news |-> << >>, final_summary |-> EmptyText,
     saved_count |-> 0, error |-> EmptyText]

NoVisits == [n \in Nodes \cup {"END"} |-> 0]

\* the graph enters node n once more (counted 0, 1, many)
Visit(v, n) == [v EXCEPT ![n] = IF @ = 0 THEN 1 ELSE 2]

NoReport ==
    [returned |-> FALSE, success |-> FALSE, raw_news_count |-> 0,
     important_news_count |-> 0, saved_count |-> 0, final_summary |-> EmptyText,
     error |-> EmptyText]

\* a faulty variant of _generate_report: success whenever something was saved
ReportSuccessIgnoresError(final_state) ==
    [returned |-> TRUE,
     success |-> (final_state.error = EmptyText \/ final_state.saved_count > 0),
     raw_news_count |-> Len(final_state.raw_news),
     important_news_count |-> Len(final_state.important_news),
     saved_count |-> final_state.saved_count,
     final_summary |-> final_state.final_summary,
     error |-> final_state.error]

\* NewsAgent._generate_report
_generate_report(final_state) ==
    [returned |-> TRUE,
     success |-> (final_state.error = EmptyText),
     raw_news_count |-> Len(final_state.raw_news),
     important_news_count |-> Len(final_state.important_news),
     saved_count |-> final_state.saved_count,
     final_summary |-> final_state.final_summary,
     error |-> final_state.error]

\* what self.graph.invoke(initial_state) gave: the final state.  Every node's
\* body is one try/except Exception, so no exception of a node leaves invoke.
Invoked(final_state) == [raised |-> FALSE, text |-> EmptyText, final_state |-> final_state]

\* NewsAgent.run, lines 199-215: the report of the final state, or, had invoke
\* raised, a report of success False and the exception's text (it has no
\* counts and no final_summary: they are given here as in NoReport)
run(invoked) ==
    IF invoked.raised
    THEN [NoReport EXCEPT !.returned = TRUE, !.error = invoked.text]
    ELSE _generate_report(invoked.final_state)

\* a faulty variant of should_continue: the run goes on whatever FETCH left
ShouldAlwaysContinue(st) == "continue"

\* should_continue
should_continue(st) ==
    IF st.error # EmptyText THEN "end"
    ELSE IF st.raw_news = << >> THEN "end"
    ELSE "continue"

\* a faulty variant of ConditionalEdge: "end" leads back to fetch_news
ConditionalEdgeRetries(st) ==
    IF should_continue(st) = "continue" THEN "analyze_news" ELSE "fetch_news"

\* workflow.add_conditional_edges("fetch_news", should_continue, {...})
ConditionalEdge(st) ==
    IF should_continue(st) = "continue" THEN "analyze_news" ELSE "END"

\* what news_fetcher.get_processed_news() may do: raise, or return a list
FetchOutcomes ==
    {[raised |-> TRUE, news |-> << >>]} \cup {[raised |-> FALSE, news |-> b] : b \in Batches}

\* a faulty variant of fetch_news_node: the except branch does not set error
FetchNodeDropsException(st, outcome) ==
    IF outcome.raised THEN st
    ELSE IF outcome.news # << >> THEN [st EXCEPT !.raw_news = outcome.news]
    ELSE [st EXCEPT !.error = <<"no news fetched">>]

\* fetch_news_node
fetch_news_node(st, outcome) ==
    IF outcome.raised THEN [st EXCEPT !.error = <<"fetch failed:", "e">>]
    ELSE IF outcome.news # << >> THEN [st EXCEPT !.raw_news = outcome.news]
    ELSE [st EXCEPT !.error = <<"no news fetched">>]

\* the classifier's answers a run draws from: every importance by the
\* structured call, and the failure of both calls
RunAnalyses ==
    [c \in Contents |->
        {analyze_news_importance(c, st, NotCalled) :
            st \in {x \in NewsAnalysis : x.summary = <<"s1">> /\ x.keywords = <<"k1">>}}
        \cup {analyze_news_importance(c, StructuredFailure, ResponseFailure)}]

\* AISummarizer.filter_important_news on the first n items, as[m] being what the
\* classifier gave for item m
RECURSIVE filter_important_news(_, _, _)
filter_important_news(list, as, n) ==
    IF n = 0 THEN << >>
    ELSE LoopBody(filter_important_news(list, as, n - 1), list[n], as[n].value)

\* what the loop of filter_important_news may do besides classifying: go
\* through ("returns"), or have an exception raised outside
\* analyze_news_importance ("raises"); the function has no handler, so the
\* exception leaves it
FilterOutcomes == {"returns", "raises"}

\* analyze_news_node
analyze_news_node(st, as, outcome) ==
    IF st.raw_news = << >> THEN [st EXCEPT !.error = <<"no news to analyze">>]
    ELSE IF outcome = "raises" \/ \E m \in 1..Len(as) : as[m].raised
         THEN [st EXCEPT !.error = <<"AI analysis failed:", "e">>]
         ELSE [st EXCEPT !.important_news =
                            filter_important_news(st.raw_news, as, Len(st.raw_news))]

\* what self.llm.invoke may do for the digest: raise, or answer a text
ComposeOutcomes ==
    {[ok |-> FALSE, text |-> EmptyText]}
    \cup {[ok |-> TRUE, text |-> t] : t \in {<<"d1">>, EmptyText, Sentinel}}

\* "\n".join(...) of each summary behind a backquote; "NL" is the newline and
\* "BQ" the backquote
RECURSIVE JoinSummaries(_, _)
JoinSummaries(records, n) ==
    IF n = 0 THEN EmptyText
    ELSE IF n = 1 THEN <<"BQ">> \o records[1].summary
    ELSE JoinSummaries(records, n - 1) \o <<"NL", "BQ">> \o records[n].summary

\* the tokens that are whitespace: the newline and the blank
Whitespace == {"NL", " "}

\* str.strip(): the text without the whitespace at its ends
RECURSIVE Strip(_)
Strip(text) ==
    IF text = << >> THEN text
    ELSE IF Head(text) \in Whitespace THEN Strip(Tail(text))
    ELSE IF text[Len(text)] \in Whitespace THEN Strip(SubSeq(text, 1, Len(text) - 1))
    ELSE text

\* a faulty variant of create_final_summary: the test  if not important_news  is missing
CreateFinalSummaryWithoutEmptyTest(records, outcome) ==
    IF outcome.ok THEN Strip(outcome.text)
    ELSE <<"important news of today:", "NL">> \o JoinSummaries(records, Len(records))

\* a faulty variant of create_final_summary: the except branch gives an empty digest
CreateFinalSummaryWithoutFallback(records, outcome) ==
    IF records = << >> THEN Sentinel
    ELSE IF outcome.ok THEN Strip(outcome.text)
    ELSE EmptyText

\* AISummarizer.create_final_summary
create_final_summary(records, outcome) ==
    IF records = << >> THEN Sentinel
    ELSE IF outcome.ok THEN Strip(outcome.text)
    ELSE <<"important news of today:", "NL">> \o JoinSummaries(records, Len(records))

\* create_summary_node
create_summary_node(st, outcome) ==
    [st EXCEPT !.final_summary = create_final_summary(st.important_news, outcome)]

\* what a call of the DatabaseManager may do: work ("ok"), fail with a
\* mysql.connector.Error, which the manager turns into False ("error"), or
\* raise something else, which leaves the manager ("raise")
DbOutcomes == {"ok", "error", "raise"}

\* SELECT COUNT(*) FROM news WHERE title = %s
TitleCount(table, title) ==
    BagCardinality([r \in {x \in DOMAIN table : x.title = title} |-> table[r]])

\* the value DatabaseManager.check_news_exists returns
check_news_exists(table, title, outcome) ==
    IF outcome = "ok" THEN TitleCount(table, title) > 0 ELSE FALSE

\* the table after DatabaseManager.insert_news
insert_news(table, title, summary, content, importance, outcome) ==
    IF outcome = "ok"
    THEN table (+) SetToBag({[title |-> title, summary |-> summary,
                              importance |-> importance, content |-> content]})
    ELSE table

\* where save_to_database_node goes once it is past record m - 1
AfterRecord(st, m) ==
    IF m <= Len(st.important_news) THEN "check_news"
    ELSE IF st.final_summary # EmptyText /\ st.final_summary # Sentinel
         THEN "check_summary"
         ELSE "save_return"

\* a faulty variant of Counted: an insert counts twice
CountedTwice(count, inserted) == IF inserted THEN count + 2 ELSE count

\* saved_count += 1 when the insert answered True
Counted(count, inserted) == IF inserted THEN count + 1 ELSE count

\* what a call of the DatabaseManager answers: "True", "False", or "raise"
\* when an exception leaves it
Answer(outcome, value) ==
    IF outcome = "raise" THEN "raise" ELSE IF value THEN "True" ELSE "False"

\* one more call of the DatabaseManager
DbCall(log, op, title, answer) ==
    Append(log, [op |-> op, title |-> title, answer |-> answer])

PipelineInit ==
    /\ pc = "idle"
    /\ state = initial_state
    /\ visits = NoVisits
    /\ fetched = [raised |-> FALSE, news |-> << >>]
    /\ saved_count = 0
    /\ pos = 1
    /\ news_table = EmptyBag
    /\ table_at_start = EmptyBag
    /\ report = NoReport
    /\ runs = 0
    /\ composed = NotCalled
    /\ db_calls = << >>

Others == UNCHANGED <<cvars, fvars, svars, mvars, nvars>>

\* NewsAgent.run is called
RunStart ==
    /\ pc \in {"idle", "done"}
    /\ runs < MaxRuns
    /\ runs' = runs + 1
    /\ state' = initial_state
    /\ visits' = NoVisits
    /\ fetched' = [raised |-> FALSE, news |-> << >>]
    /\ saved_count' = 0
    /\ pos' = 1
    /\ table_at_start' = news_table
    /\ report' = NoReport
    /\ composed' = NotCalled
    /\ db_calls' = << >>
    /\ pc' = "fetch_news"
    /\ UNCHANGED news_table
    /\ Others

\* the graph goes on to node n, or ends
GoTo(n, v) ==
    /\ pc' = n
    /\ visits' = IF n = "END" THEN Visit(v, "END") ELSE v

FetchNews ==
    /\ pc = "fetch_news"
    /\ \E outcome \in FetchOutcomes :
           /\ fetched' = outcome
           /\ state' = fetch_news_node(state, outcome)
    /\ GoTo(ConditionalEdge(state'), Visit(visits, "fetch_news"))
    /\ UNCHANGED <<saved_count, pos, news_table, table_at_start, report, runs, composed,
                   db_calls>>
    /\ Others

\* a faulty variant of AnalyzeNews: the edge after analyze_news ends the run
\* when the node recorded an error
AnalyzeNewsEndsOnError ==
    /\ pc = "analyze_news"
    /\ \E as \in [1..Len(state.raw_news) -> UNION {RunAnalyses[c] : c \in Contents}] :
           /\ \A m \in 1..Len(as) : as[m] \in RunAnalyses[state.raw_news[m].content]
           /\ \E outcome \in FilterOutcomes : state' = analyze_news_node(state, as, outcome)
    /\ GoTo(IF state'.error # EmptyText THEN "END" ELSE "create_summary",
            Visit(visits, "analyze_news"))
    /\ UNCHANGED <<fetched, saved_count, pos, news_table, table_at_start, report, runs,
                   composed, db_calls>>
    /\ Others

\* analyze_news_node, and the edge analyze_news -> create_summary
AnalyzeNews ==
    /\ pc = "analyze_news"
    /\ \E as \in [1..Len(state.raw_news) -> UNION {RunAnalyses[c] : c \in Contents}] :
           /\ \A m \in 1..Len(as) : as[m] \in RunAnalyses[state.raw_news[m].content]
           /\ \E outcome \in FilterOutcomes : state' = analyze_news_node(state, as, outcome)
    /\ GoTo("create_summary", Visit(visits, "analyze_news"))
    /\ UNCHANGED <<fetched, saved_count, pos, news_table, table_at_start, report, runs,
                   composed, db_calls>>
    /\ Others

\* create_summary_node; the model is called unless important_news is empty
CreateSummary ==
    /\ pc = "create_summary"
    /\ \E outcome \in IF state.important_news = << >> THEN {NotCalled}
                                                      ELSE ComposeOutcomes :
           /\ composed' = outcome
           /\ state' = create_summary_node(state, outcome)
    /\ GoTo("save_to_database", Visit(visits, "create_summary"))
    /\ UNCHANGED <<fetched, saved_count, pos, news_table, table_at_start, report, runs,
                   db_calls>>
    /\ Others

\* save_to_database_node starts: saved_count = 0, the loop is at its first record
SaveToDatabase ==
    /\ pc = "save_to_database"
    /\ saved_count' = 0
    /\ pos' = 1
    /\ pc' = AfterRecord(state, 1)
    /\ visits' = Visit(visits, "save_to_database")
    /\ UNCHANGED <<state, fetched, news_table, table_at_start, report, runs, composed,
                   db_calls>>
    /\ Others

\* the except branch of save_to_database_node
SaveRaised ==
    /\ state' = [state EXCEPT !.error = <<"save failed:", "e">>,
                              !.saved_count = saved_count]
    /\ GoTo("END", visits)
    /\ UNCHANGED <<saved_count, pos, news_table>>

\* a faulty variant of CheckNews: the record is inserted whatever the check
\* answered
CheckNewsIgnoresAnswer ==
    /\ pc = "check_news"
    /\ \E outcome \in DbOutcomes :
           LET title == state.important_news[pos].original_title
               exists == check_news_exists(news_table, title, outcome)
           IN  /\ db_calls' = DbCall(db_calls, "check", title, Answer(outcome, exists))
               /\ IF outcome = "raise" THEN SaveRaised
                  ELSE /\ pos' = pos
                       /\ pc' = "insert_news"
                       /\ UNCHANGED <<state, visits, saved_count, news_table>>
    /\ UNCHANGED <<fetched, table_at_start, report, runs, composed>>
    /\ Others

\* db_manager.check_news_exists(title) for record pos
CheckNews ==
    /\ pc = "check_news"
    /\ \E outcome \in DbOutcomes :
           LET title == state.important_news[pos].original_title
               exists == check_news_exists(news_table, title, outcome)
           IN  /\ db_calls' = DbCall(db_calls, "check", title, Answer(outcome, exists))
               /\ IF outcome = "raise" THEN SaveRaised
                  ELSE /\ IF exists
                          THEN /\ pos' = pos + 1
                               /\ pc' = AfterRecord(state, pos + 1)
                          ELSE /\ pos' = pos
                               /\ pc' = "insert_news"
                       /\ UNCHANGED <<state, visits, saved_count, news_table>>
    /\ UNCHANGED <<fetched, table_at_start, report, runs, composed>>
    /\ Others

\* db_manager.insert_news(title, summary, content, importance) for record pos
InsertNews ==
    /\ pc = "insert_news"
    /\ \E outcome \in DbOutcomes :
           /\ db_calls' = DbCall(db_calls, "insert",
                                 state.important_news[pos].original_title,
                                 Answer(outcome, outcome = "ok"))
           /\ IF outcome = "raise" THEN SaveRaised
              ELSE LET news == state.important_news[pos]
                   IN  /\ news_table' = insert_news(news_table, news.original_title,
                                                    news.summary, news.original_content,
                                                    news.importance, outcome)
                       /\ saved_count' = Counted(saved_count, outcome = "ok")
                       /\ pos' = pos + 1
                       /\ pc' = AfterRecord(state, pos + 1)
                       /\ UNCHANGED <<state, visits>>
    /\ UNCHANGED <<fetched, table_at_start, report, runs, composed>>
    /\ Others

\* db_manager.check_news_exists(summary_title)
CheckSummary ==
    /\ pc = "check_summary"
    /\ \E outcome \in DbOutcomes :
           /\ db_calls' = DbCall(db_calls, "check", summary_title,
                                 Answer(outcome, check_news_exists(news_table,
                                                                   summary_title, outcome)))
           /\ IF outcome = "raise" THEN SaveRaised
              ELSE /\ pc' = IF check_news_exists(news_table, summary_title, outcome)
                            THEN "save_return" ELSE "insert_summary"
                   /\ UNCHANGED <<state, visits, saved_count, pos, news_table>>
    /\ UNCHANGED <<fetched, table_at_start, report, runs, composed>>
    /\ Others

\* db_manager.insert_news(summary_title, ..., final_summary, "高")
InsertSummary ==
    /\ pc = "insert_summary"
    /\ \E outcome \in DbOutcomes :
           /\ db_calls' = DbCall(db_calls, "insert", summary_title,
                                 Answer(outcome, outcome = "ok"))
           /\ IF outcome = "raise" THEN SaveRaised
              ELSE /\ news_table' = insert_news(news_table, summary_title,
                                                <<"AI generated daily summary">>,
                                                state.final_summary, "HIGH", outcome)
                   /\ saved_count' = Counted(saved_count, outcome = "ok")
                   /\ pc' = "save_return"
                   /\ UNCHANGED <<state, visits, pos>>
    /\ UNCHANGED <<fetched, table_at_start, report, runs, composed>>
    /\ Others

\* state["saved_count"] = saved_count; return state
SaveReturn ==
    /\ pc = "save_return"
    /\ state' = [state EXCEPT !.saved_count = saved_count]
    /\ GoTo("END", visits)
    /\ UNCHANGED <<fetched, saved_count, pos, news_table, table_at_start, report, runs,
                   composed, db_calls>>
    /\ Others

\* graph.invoke returned: run() makes the report and returns it
Report ==
    /\ pc = "END"
    /\ report' = run(Invoked(state))
    /\ pc' = "done"
    /\ UNCHANGED <<state, visits, fetched, saved_count, pos, news_table, table_at_start,
                   runs, composed, db_calls>>
    /\ Others

RunStep ==
    \/ FetchNews \/ AnalyzeNews \/ CreateSummary
    \/ SaveToDatabase \/ CheckNews \/ InsertNews \/ CheckSummary \/ InsertSummary
    \/ SaveReturn \/ Report

Next == RunStart \/ RunStep

-----------------------------------------------------------------------------
(* The scheduler: scheduler.py, and the callers of its operations.
   The callers are the contexts that call NewsScheduler's public operations:
   the thread of run_forever, the signal handler and the request handlers of
   render_server.py and web_main.py.  A caller makes one call at a time, one
   statement per step.  A run of the agent is the interval between a job's
   begin and its end.  The web server's own thread, run_scheduler, is the
   call "serve": it is made once, when the server starts. *)

Callers == {"c1", "c2"}

\* time.sleep(60) of _run_scheduler and join(timeout=5) of stop, in seconds
SleepSeconds == 60
JoinTimeout == 5

Ops == {[op |-> "start", run_immediately |-> TRUE],
        [op |-> "start", run_immediately |-> FALSE],
        [op |-> "stop", run_immediately |-> FALSE],
        [op |-> "run_once", run_immediately |-> FALSE],
        [op |-> "serve", run_immediately |-> TRUE]}

\* forever tells that the caller is in run_forever, called by run_scheduler
Idle == [pc |-> "idle", run_immediately |-> FALSE, target |-> 0, left |-> 0,
         forever |-> FALSE]

\* how one call of news_agent.run inside run_news_agent_job may go: a report
\* with success true, a report with success false, or an exception
RunOutcomes == {"success", "failure", "raised"}

\* a faulty variant of run_news_agent_job: no handler around the run
RunJobUnguarded(outcome) ==
    [raised |-> (outcome = "raised"),
     log |-> IF outcome = "success" THEN "info" ELSE "error"]

\* NewsScheduler.run_news_agent_job: it logs how the run went; raised tells
\* whether an exception leaves it
run_news_agent_job(outcome) ==
    [raised |-> FALSE,
     log |-> IF outcome = "success" THEN "info" ELSE "error"]

NoAnswer == [status |-> "none", code |-> 0]

\* the answer of the run-once endpoint of render_server.py; web_main.py
\* answers the same status, with code 200 in both cases
run_once(job) ==
    IF job.raised THEN [status |-> "error", code |-> 500]
    ELSE [status |-> "completed", code |-> 200]

\* where a caller is once start() has returned, once stop() has returned, and
\* once an exception has left start()
StartReturned(c) ==
    IF ctx[c].forever THEN [Idle EXCEPT !.pc = "forever_wait", !.forever = TRUE] ELSE Idle

StopReturned(c) ==
    IF ctx[c].forever THEN [Idle EXCEPT !.pc = "serve_end", !.forever = TRUE] ELSE Idle

StartRaised(c) ==
    IF ctx[c].forever THEN [Idle EXCEPT !.pc = "serve_end", !.forever = TRUE] ELSE Idle

At(c, where) == ctx[c].pc = where
Move(c, where) == ctx' = [ctx EXCEPT ![c].pc = where]

\* schedule.clear()
clear(js) == << >>

\* the call a caller is in: the last one it made
CallOf(c) ==
    CHOOSE k \in 1..Len(calls) :
        /\ calls[k].who = c
        /\ \A m \in 1..Len(calls) : calls[m].who = c => m <= k

\* schedule.every(SCHEDULE_HOURS).hours.do(job): one more job, first due after
\* the interval
every_hours_do(js, id) == Append(js, [id |-> id, due |-> FALSE])

\* the jobs of schedule.run_pending: those that are due, in order
Runnable(js) ==
    LET due == SelectSeq(js, LAMBDA j : j.due)
    IN  [k \in 1..Len(due) |-> due[k].id]

\* Job.run after job_func returned: the job is scheduled one interval ahead
Rescheduled(js, id) ==
    [k \in 1..Len(js) |-> IF js[k].id = id THEN [js[k] EXCEPT !.due = FALSE] ELSE js[k]]

\* the threads start() can create: one for each call
Threads == 1..MaxCalls
Unborn == [st |-> "unborn", todo |-> << >>, left |-> 0]
Born == {t \in Threads : threads[t].st # "unborn"}

\* Thread.is_alive()
Alive(t) == t # 0 /\ threads[t].st \notin {"unborn", "dead"}

\* the contexts that are inside news_agent.run
RunningCallers == {c \in Callers : ctx[c].pc \in {"start_job_run", "once_job_run"}}
RunningThreads == {t \in Threads : threads[t].st = "job_run"}
RunsInProgress == Cardinality(RunningCallers) + Cardinality(RunningThreads)

SchedInit ==
    /\ is_running = FALSE
    /\ stop_event = FALSE
    /\ scheduler_thread = 0
    /\ jobs = << >>
    /\ threads = [t \in Threads |-> Unborn]
    /\ ctx = [c \in Callers |-> Idle]
    /\ completed = 0
    /\ started = 0
    /\ calls = << >>
    /\ last_run = "none"
    /\ http = NoAnswer
    /\ scheduler_running = FALSE

Rest == UNCHANGED <<cvars, fvars, pvars, mvars, nvars>>

Frame == Rest /\ UNCHANGED <<last_run, http, scheduler_running>>

\* a caller calls start(run_immediately), stop() or run_once(), or the web
\* server starts its thread run_scheduler
Call(c) ==
    /\ At(c, "idle")
    /\ Len(calls) < MaxCalls
    /\ \E o \in Ops :
           /\ o.op = "serve" => calls = << >>
           /\ calls' = Append(calls, [who |-> c, op |-> o.op,
                                      run_immediately |-> o.run_immediately])
           /\ ctx' = [ctx EXCEPT ![c] = [Idle EXCEPT
                          !.pc = CASE o.op = "start" -> "start_check"
                                   [] o.op = "stop" -> "stop_check"
                                   [] o.op = "serve" -> "serve_begin"
                                   [] OTHER -> "once_job",
                          !.run_immediately = o.run_immediately,
                          !.forever = (o.op = "serve")]]
    /\ UNCHANGED <<is_running, stop_event, scheduler_thread, jobs, threads, completed,
                   started>>
    /\ Frame

\* a faulty variant of start's first test: it goes on whatever is_running says
StartCheckIgnoresFlag(c) ==
    /\ At(c, "start_check")
    /\ Move(c, "start_clear")
    /\ UNCHANGED <<is_running, stop_event, scheduler_thread, jobs, threads, completed,
                   started, calls>>
    /\ Frame

\* start, line 93: if self.is_running: return
StartCheck(c) ==
    /\ At(c, "start_check")
    /\ IF is_running THEN ctx' = [ctx EXCEPT ![c] = StartReturned(c)]
                     ELSE Move(c, "start_clear")
    /\ UNCHANGED <<is_running, stop_event, scheduler_thread, jobs, threads, completed,
                   started, calls>>
    /\ Frame

\* setup_schedule, line 75: schedule.clear()
SetupClear(c) ==
    /\ At(c, "start_clear")
    /\ jobs' = clear(jobs)
    /\ Move(c, "start_do")
    /\ UNCHANGED <<is_running, stop_event, scheduler_thread, threads, completed,
                   started, calls>>
    /\ Frame

\* setup_schedule, line 78: schedule.every(SCHEDULE_HOURS).hours.do(...)
SetupDo(c) ==
    /\ At(c, "start_do")
    /\ jobs' = every_hours_do(jobs, CallOf(c))
    /\ Move(c, IF ctx[c].run_immediately THEN "start_job" ELSE "start_flag")
    /\ UNCHANGED <<is_running, stop_event, scheduler_thread, threads, completed,
                   started, calls>>
    /\ Frame

\* start, line 105: the immediate run begins: news_agent.run() is entered
StartJobBegin(c) ==
    /\ At(c, "start_job")
    /\ started < MaxJobRuns
    /\ started' = started + 1
    /\ Move(c, "start_job_run")
    /\ UNCHANGED <<is_running, stop_event, scheduler_thread, jobs, threads, completed,
                   calls>>
    /\ Frame

\* start, line 105: the immediate run ends; an exception that left the job
\* would leave start
StartJobEnd(c) ==
    /\ At(c, "start_job_run")
    /\ completed' = completed + 1
    /\ \E outcome \in RunOutcomes :
           /\ last_run' = outcome
           /\ IF run_news_agent_job(outcome).raised
              THEN ctx' = [ctx EXCEPT ![c] = StartRaised(c)]
              ELSE Move(c, "start_flag")
    /\ UNCHANGED <<is_running, stop_event, scheduler_thread, jobs, threads, started,
                   calls, http, scheduler_running>>
    /\ Rest

\* start, line 108: self.is_running = True
StartFlag(c) ==
    /\ At(c, "start_flag")
    /\ is_running' = TRUE
    /\ Move(c, "start_thread")
    /\ UNCHANGED <<stop_event, scheduler_thread, jobs, threads, completed, started,
                   calls>>
    /\ Frame

\* start, lines 109-110: the thread is created and started; start returns
StartThread(c) ==
    /\ At(c, "start_thread")
    /\ LET t == Cardinality(Born) + 1
       IN  /\ threads' = [threads EXCEPT ![t].st = "loop"]
           /\ scheduler_thread' = t
    /\ ctx' = [ctx EXCEPT ![c] = StartReturned(c)]
    /\ UNCHANGED <<is_running, stop_event, jobs, completed, started, calls>>
    /\ Frame

\* run_once, line 89: the job begins
OnceJobBegin(c) ==
    /\ At(c, "once_job")
    /\ started < MaxJobRuns
    /\ started' = started + 1
    /\ Move(c, "once_job_run")
    /\ UNCHANGED <<is_running, stop_event, scheduler_thread, jobs, threads, completed,
                   calls>>
    /\ Frame

\* run_once, line 89: the job ends, and so does run_once; the run-once
\* endpoint answers
OnceJobEnd(c) ==
    /\ At(c, "once_job_run")
    /\ completed' = completed + 1
    /\ \E outcome \in RunOutcomes :
           /\ last_run' = outcome
           /\ http' = run_once(run_news_agent_job(outcome))
    /\ ctx' = [ctx EXCEPT ![c] = Idle]
    /\ UNCHANGED <<is_running, stop_event, scheduler_thread, jobs, threads, started,
                   calls, scheduler_running>>
    /\ Rest

\* stop, line 126: if not self.is_running: return
StopCheck(c) ==
    /\ At(c, "stop_check")
    /\ IF is_running THEN Move(c, "stop_flag")
                     ELSE ctx' = [ctx EXCEPT ![c] = StopReturned(c)]
    /\ UNCHANGED <<is_running, stop_event, scheduler_thread, jobs, threads, completed,
                   started, calls>>
    /\ Frame

\* stop, line 132: self.is_running = False
StopFlag(c) ==
    /\ At(c, "stop_flag")
    /\ is_running' = FALSE
    /\ Move(c, "stop_event")
    /\ UNCHANGED <<stop_event, scheduler_thread, jobs, threads, completed, started,
                   calls>>
    /\ Frame

\* stop, line 133: self.stop_event.set()
StopEvent(c) ==
    /\ At(c, "stop_event")
    /\ stop_event' = TRUE
    /\ Move(c, "stop_join")
    /\ UNCHANGED <<is_running, scheduler_thread, jobs, threads, completed, started,
                   calls>>
    /\ Frame

\* stop, lines 136-137: join(timeout=5) is entered if the thread is alive
StopJoin(c) ==
    /\ At(c, "stop_join")
    /\ IF Alive(scheduler_thread)
       THEN ctx' = [ctx EXCEPT ![c].pc = "stop_wait", ![c].target = scheduler_thread,
                               ![c].left = JoinTimeout]
       ELSE Move(c, "stop_clear")
    /\ UNCHANGED <<is_running, stop_event, scheduler_thread, jobs, threads, completed,
                   started, calls>>
    /\ Frame

\* stop, line 137: join returns, the thread having ended or the timeout expired
StopJoined(c) ==
    /\ At(c, "stop_wait")
    /\ ~Alive(ctx[c].target) \/ ctx[c].left = 0
    /\ ctx' = [ctx EXCEPT ![c].pc = "stop_clear", ![c].left = 0]
    /\ UNCHANGED <<is_running, stop_event, scheduler_thread, jobs, threads, completed,
                   started, calls>>
    /\ Frame

\* stop, line 140: schedule.clear(); stop returns
StopClear(c) ==
    /\ At(c, "stop_clear")
    /\ jobs' = clear(jobs)
    /\ ctx' = [ctx EXCEPT ![c] = StopReturned(c)]
    /\ UNCHANGED <<is_running, stop_event, scheduler_thread, threads, completed,
                   started, calls>>
    /\ Frame

\* run_scheduler of the web server, first statement: scheduler_running = True;
\* then news_scheduler.run_forever(run_immediately=True) calls start
ServeBegin(c) ==
    /\ At(c, "serve_begin")
    /\ scheduler_running' = TRUE
    /\ Move(c, "start_check")
    /\ UNCHANGED <<is_running, stop_event, scheduler_thread, jobs, threads, completed,
                   started, calls, last_run, http>>
    /\ Rest

\* run_forever, lines 166-171: while self.is_running: time.sleep(1); once the
\* flag is down, finally: self.stop()
ForeverWait(c) ==
    /\ At(c, "forever_wait")
    /\ ~is_running
    /\ Move(c, "stop_check")
    /\ UNCHANGED <<is_running, stop_event, scheduler_thread, jobs, threads, completed,
                   started, calls>>
    /\ Frame

\* run_scheduler of the web server, finally: scheduler_running = False
ServeEnd(c) ==
    /\ At(c, "serve_end")
    /\ scheduler_running' = FALSE
    /\ ctx' = [ctx EXCEPT ![c] = Idle]
    /\ UNCHANGED <<is_running, stop_event, scheduler_thread, jobs, threads, completed,
                   started, calls, last_run, http>>
    /\ Rest

ThreadIs(t, st) == threads[t].st = st

\* _run_scheduler, line 116: while self.is_running and not self.stop_event.is_set()
LoopCheck(t) ==
    /\ ThreadIs(t, "loop")
    /\ threads' = [threads EXCEPT ![t].st =
                       IF is_running /\ ~stop_event THEN "run_pending" ELSE "dead"]
    /\ UNCHANGED <<is_running, stop_event, scheduler_thread, jobs, ctx, completed,
                   started, calls>>
    /\ Frame

\* _run_scheduler, line 118: schedule.run_pending() collects the jobs that are due;
\* with none, line 119: time.sleep(60) begins
RunPending(t) ==
    /\ ThreadIs(t, "run_pending")
    /\ threads' = [threads EXCEPT ![t] =
                       IF Runnable(jobs) = << >>
                       THEN [st |-> "sleep", todo |-> << >>, left |-> SleepSeconds]
                       ELSE [st |-> "job", todo |-> Runnable(jobs), left |-> 0]]
    /\ UNCHANGED <<is_running, stop_event, scheduler_thread, jobs, ctx, completed,
                   started, calls>>
    /\ Frame

\* run_pending runs the next job it collected: run_news_agent_job begins
ThreadJobBegin(t) ==
    /\ ThreadIs(t, "job")
    /\ started < MaxJobRuns
    /\ started' = started + 1
    /\ threads' = [threads EXCEPT ![t].st = "job_run"]
    /\ UNCHANGED <<is_running, stop_event, scheduler_thread, jobs, ctx, completed,
                   calls>>
    /\ Frame

\* run_news_agent_job ends: the job is rescheduled; after the last job,
\* line 119: time.sleep(60) begins.  An exception that left the job would
\* leave run_pending with the job still due, for line 122: time.sleep(60)
ThreadJobEnd(t) ==
    /\ ThreadIs(t, "job_run")
    /\ completed' = completed + 1
    /\ \E outcome \in RunOutcomes :
           /\ last_run' = outcome
           /\ IF run_news_agent_job(outcome).raised
              THEN /\ threads' = [threads EXCEPT ![t] =
                          [st |-> "sleep", todo |-> << >>, left |-> SleepSeconds]]
                   /\ UNCHANGED jobs
              ELSE /\ jobs' = Rescheduled(jobs, Head(threads[t].todo))
                   /\ threads' = [threads EXCEPT ![t] =
                          IF Tail(threads[t].todo) = << >>
                          THEN [st |-> "sleep", todo |-> << >>, left |-> SleepSeconds]
                          ELSE [st |-> "job", todo |-> Tail(threads[t].todo),
                                left |-> 0]]
    /\ UNCHANGED <<is_running, stop_event, scheduler_thread, ctx, started, calls, http,
                   scheduler_running>>
    /\ Rest

\* _run_scheduler, line 119: time.sleep(60) returns
Wake(t) ==
    /\ ThreadIs(t, "sleep")
    /\ threads[t].left = 0
    /\ threads' = [threads EXCEPT ![t].st = "loop"]
    /\ UNCHANGED <<is_running, stop_event, scheduler_thread, jobs, ctx, completed,
                   started, calls>>
    /\ Frame

\* the waits that have time left: sleeps of threads and joins of callers
Waits ==
    {threads[t].left : t \in {x \in Threads : threads[x].st = "sleep"}}
        \cup {ctx[c].left : c \in {x \in Callers : ctx[x].pc = "stop_wait"}}

Shortest(S) == CHOOSE d \in S : \A e \in S : d <= e

Elapse(left, d) == IF left > d THEN left - d ELSE 0

\* time passes until the first wait that has time left expires
Tick ==
    /\ Waits \ {0} # {}
    /\ LET d == Shortest(Waits \ {0})
       IN  /\ threads' = [t \in Threads |->
                              [threads[t] EXCEPT !.left = Elapse(@, d)]]
           /\ ctx' = [c \in Callers |-> [ctx[c] EXCEPT !.left = Elapse(@, d)]]
    /\ UNCHANGED <<is_running, stop_event, scheduler_thread, jobs, completed, started,
                   calls>>
    /\ Frame

\* SCHEDULE_HOURS hours pass: every registered job is due, every wait has expired
IntervalElapses ==
    /\ jobs # << >>
    /\ \E k \in 1..Len(jobs) : ~jobs[k].due
    /\ jobs' = [k \in 1..Len(jobs) |-> [jobs[k] EXCEPT !.due = TRUE]]
    /\ threads' = [t \in Threads |-> [threads[t] EXCEPT !.left = 0]]
    /\ ctx' = [c \in Callers |-> [ctx[c] EXCEPT !.left = 0]]
    /\ UNCHANGED <<is_running, stop_event, scheduler_thread, completed, started, calls>>
    /\ Frame

CallerStep(c) ==
    \/ Call(c)
    \/ StartCheck(c) \/ SetupClear(c) \/ SetupDo(c) \/ StartJobBegin(c)
    \/ StartJobEnd(c) \/ StartFlag(c) \/ StartThread(c)
    \/ OnceJobBegin(c) \/ OnceJobEnd(c)
    \/ StopCheck(c) \/ StopFlag(c) \/ StopEvent(c) \/ StopJoin(c) \/ StopJoined(c)
    \/ StopClear(c)
    \/ ServeBegin(c) \/ ForeverWait(c) \/ ServeEnd(c)

ThreadStep(t) ==
    \/ LoopCheck(t) \/ RunPending(t) \/ ThreadJobBegin(t) \/ ThreadJobEnd(t) \/ Wake(t)

NextSched ==
    \/ \E c \in Callers : CallerStep(c)
    \/ \E t \in Threads : ThreadStep(t)
    \/ Tick
    \/ IntervalElapses

-----------------------------------------------------------------------------
(* One call of merge_summaries, with the outcome of its model call drawn    *)
(* from MergeOutcomes.                                                      *)

\* the digests and summaries a call may be given
ExistingSummaries == {EmptyText, <<"d0">>, <<"d0", "NL", "d1">>}
NewSummaries == {EmptyText, <<"d1">>, <<"d2">>}

\* the records a call may be given: what filter_important_news builds
NewRecords ==
    {ImportantRecord(item, [importance |-> imp, summary |-> <<"s1">>, keywords |-> <<"k1">>]) :
        item \in Items, imp \in {"HIGH", "MEDIUM"}}

NewRecordLists == UNION {[1..k -> NewRecords] : k \in 0..MaxBatch}

\* what self.llm.invoke may do for the merge: raise, or answer a text
MergeOutcomes ==
    {[ok |-> FALSE, text |-> EmptyText]}
    \cup {[ok |-> TRUE, text |-> t] : t \in {<<"m1">>, <<"NL", "m1", "NL">>, EmptyText}}

\* a faulty variant of merge_summaries: the test  if not new_important_news  is missing
MergeWithoutEmptyTest(existing, new, records, outcome) ==
    IF outcome.ok THEN [raised |-> FALSE, value |-> Strip(outcome.text)]
    ELSE [raised |-> FALSE,
          value |-> existing \o <<"NL", "NL", "[new content]", "NL">> \o new]

\* a faulty variant of merge_summaries: the except branch keeps only the new summary
MergeFallbackDropsExisting(existing, new, records, outcome) ==
    IF records = << >> THEN [raised |-> FALSE, value |-> existing]
    ELSE IF outcome.ok THEN [raised |-> FALSE, value |-> Strip(outcome.text)]
    ELSE [raised |-> FALSE, value |-> <<"[new content]", "NL">> \o new]

\* AISummarizer.merge_summaries; the except branch gives
\* f"{existing_summary}\n\n【新增内容】\n{new_summary}"
merge_summaries(existing, new, records, outcome) ==
    IF records = << >> THEN [raised |-> FALSE, value |-> existing]
    ELSE IF outcome.ok THEN [raised |-> FALSE, value |-> Strip(outcome.text)]
    ELSE [raised |-> FALSE,
          value |-> existing \o <<"NL", "NL", "[new content]", "NL">> \o new]

MergeInit ==
    /\ mpc = "idle"
    /\ existing_summary = EmptyText
    /\ new_summary = EmptyText
    /\ new_important_news = << >>
    /\ merge_reply = NotCalled
    /\ merged = [raised |-> FALSE, value |-> EmptyText]

Merged(existing, new, records, outcome) ==
    /\ existing_summary' = existing
    /\ new_summary' = new
    /\ new_important_news' = records
    /\ merge_reply' = outcome
    /\ merged' = merge_summaries(existing, new, records, outcome)
    /\ mpc' = IF merged'.raised THEN "raised" ELSE "returned"

\* the call with no new records: the model is not called
MergeNothing ==
    /\ mpc = "idle"
    /\ \E existing \in ExistingSummaries, new \in NewSummaries :
           Merged(existing, new, << >>, NotCalled)
    /\ UNCHANGED <<cvars, fvars, pvars, svars, nvars>>

\* the call with new records: the model is called
MergeRecords ==
    /\ mpc = "idle"
    /\ \E existing \in ExistingSummaries, new \in NewSummaries,
          records \in NewRecordLists \ {<< >>}, outcome \in MergeOutcomes :
           Merged(existing, new, records, outcome)
    /\ UNCHANGED <<cvars, fvars, pvars, svars, nvars>>

NextMerge == MergeNothing \/ MergeRecords

-----------------------------------------------------------------------------
(* One call of NewsFetcher.get_processed_news, one item of raw_news per      *)
(* step.  A text is a sequence of characters here; an item of the feed is a  *)
(* dict, a function from some keys to values, or something else, of which    *)
(* only str(item) matters.                                                   *)

\* title[:50], str(item)[:100] and len(str(item)) > 100
TitlePrefixLen == 50
TitleLimit == 100

\* n characters "a"
Long(n) == [k \in 1..n |-> "a"]

\* the values a key of a dict item may have, each with bool(value) and
\* str(value): "", " ", "h\nb" and a text of 51 characters
Values ==
    {[truthy |-> FALSE, str |-> EmptyText],
     [truthy |-> TRUE, str |-> <<" ">>],
     [truthy |-> TRUE, str |-> <<"h", "NL", "b">>],
     [truthy |-> TRUE, str |-> Long(TitlePrefixLen + 1)]}

\* the keys the dict items of the model may have: a title alias, a content
\* alias, the alias of both, and a key that is no alias
ItemKeys == <<"title", "content", "app_msg", "id">>

DictItems ==
    UNION {[D -> Values] : D \in SUBSET {ItemKeys[k] : k \in 1..Len(ItemKeys)}}

\* str(item) of the items that are no dicts: "", " ", "t", None and a text of
\* 101 characters
OtherItems ==
    {EmptyText, <<" ">>, <<"t">>, <<"N", "o", "n", "e">>, Long(TitleLimit + 1)}

UpstreamItems ==
    {[dict |-> TRUE, fields |-> d, str |-> EmptyText] : d \in DictItems}
    \cup {[dict |-> FALSE, fields |-> << >>, str |-> o] : o \in OtherItems}

title_fields == <<"title", "headline", "subject", "name", "summary", "app_msg">>
content_fields ==
    <<"content", "body", "text", "description", "detail", "article", "app_msg">>

\* field in news_item and news_item[field]
Has(news_item, field) == field \in DOMAIN news_item /\ news_item[field].truthy

\* the first of the fields, from the k-th on, that the item has; 0 if none
RECURSIVE FirstField(_, _, _)
FirstField(fields, news_item, k) ==
    IF k > Len(fields) THEN 0
    ELSE IF Has(news_item, fields[k]) THEN k
    ELSE FirstField(fields, news_item, k + 1)

\* text.split('\n')[0]
RECURSIVE FirstLine(_)
FirstLine(text) ==
    IF text = << >> \/ Head(text) = "NL" THEN << >>
    ELSE <<Head(text)>> \o FirstLine(Tail(text))

\* str(news_item) of a dict: its keys and values between braces
RECURSIVE DictStr(_, _)
DictStr(news_item, k) ==
    IF k = 0 THEN <<"{">>
    ELSE DictStr(news_item, k - 1)
             \o (IF ItemKeys[k] \in DOMAIN news_item
                 THEN <<ItemKeys[k], ":">> \o news_item[ItemKeys[k]].str \o <<",">>
                 ELSE << >>)
             \o (IF k = Len(ItemKeys) THEN <<"}">> ELSE << >>)

\* NewsFetcher.parse_news_item
parse_news_item(news_item) ==
    LET tk == FirstField(title_fields, news_item, 1)
        ck == FirstField(content_fields, news_item, 1)
        found_title ==
            IF tk = 0 THEN EmptyText
            ELSE LET content_text == Strip(news_item[title_fields[tk]].str)
                 IN  IF title_fields[tk] = "app_msg"
                     THEN Strip(FirstLine(content_text))
                     ELSE content_text
        found_content ==
            IF ck = 0 THEN EmptyText ELSE Strip(news_item[content_fields[ck]].str)
    IN  [title |-> IF found_title = EmptyText /\ found_content # EmptyText
                   THEN Prefix(found_content, TitlePrefixLen) \o <<"...">>
                   ELSE found_title,
         content |-> IF found_content = EmptyText
                     THEN DictStr(news_item, Len(ItemKeys))
                     ELSE found_content]

\* the body of the loop of get_processed_news: processed_news after the item
Processed(list, it) ==
    IF it.dict
    THEN LET parsed_item == parse_news_item(it.fields)
         IN  IF parsed_item.title # EmptyText /\ parsed_item.content # EmptyText
             THEN Append(list, parsed_item)
             ELSE list
    ELSE Append(list, [title |-> IF Len(it.str) > TitleLimit
                                 THEN Prefix(it.str, TitleLimit) \o <<"...">>
                                 ELSE it.str,
                       content |-> it.str])

NoItem == [dict |-> FALSE, fields |-> << >>, str |-> <<"<no item>">>]

FeedInit ==
    /\ npc = "idle"
    /\ todo = 0
    /\ raw_item = NoItem
    /\ processed_news = << >>

NotFeed == UNCHANGED <<cvars, fvars, pvars, svars, mvars>>

\* get_processed_news is called: fetch_latest_news answers None or the empty
\* list, and [] is returned, or it answers a list of 1..MaxFeed items
GetProcessedNews ==
    /\ npc = "idle"
    /\ \E n \in 0..MaxFeed :
           /\ todo' = n
           /\ npc' = IF n = 0 THEN "returned" ELSE "loop"
    /\ UNCHANGED <<raw_item, processed_news>>
    /\ NotFeed

\* one iteration of  for item in raw_news
ProcessItem ==
    /\ npc = "loop"
    /\ todo > 0
    /\ \E it \in UpstreamItems :
           /\ raw_item' = it
           /\ processed_news' = Processed(processed_news, it)
    /\ todo' = todo - 1
    /\ UNCHANGED npc
    /\ NotFeed

\* return processed_news
ProcessedReturn ==
    /\ npc = "loop"
    /\ todo = 0
    /\ npc' = "returned"
    /\ UNCHANGED <<todo, raw_item, processed_news>>
    /\ NotFeed

NextFeed == GetProcessedNews \/ ProcessItem \/ ProcessedReturn

-----------------------------------------------------------------------------
Init ==
    ClassifyInit /\ FilterInit /\ PipelineInit /\ SchedInit /\ MergeInit /\ FeedInit

SpecClassify == Init /\ [][NextClassify]_vars
SpecFilter == Init /\ [][NextFilter]_vars
SpecMerge == Init /\ [][NextMerge]_vars
Spec == Init /\ [][Next]_vars
SpecSched == Init /\ [][NextSched]_vars
SpecFeed == Init /\ [][NextFeed]_vars

\* a run that was started goes on until it returns
FairSpec == Spec /\ WF_vars(RunStep)

-----------------------------------------------------------------------------
(* Properties *)

\* C1: whatever the batch and the classifier's verdicts, filter_important_news
\* gives at most as many records as the batch has items, and every record's
\* importance is HIGH or MEDIUM, never LOW, FAILED or anything else.
C1_FilterOutputImportant ==
    fpc \in {"loop", "returned"} =>
        /\ Len(important_news) <= Len(news_list)
        /\ \A k \in 1..Len(important_news) :
               important_news[k].importance \in {"HIGH", "MEDIUM"}

\* a call that returned a record although one verdict was FAILED and one LOW-like
C1_Witness ==
    /\ fpc = "returned"
    /\ Len(important_news) = 1
    /\ \E k \in 1..Len(verdicts) : verdicts[k] \in {"FAILED", "LOW", "OTHER"}

\* the items of news_list[1..n] whose verdict is HIGH or MEDIUM, in input order
RECURSIVE KeptItems(_, _, _)
KeptItems(list, vs, n) ==
    IF n = 0 THEN << >>
    ELSE IF vs[n] \in {"HIGH", "MEDIUM"}
         THEN Append(KeptItems(list, vs, n - 1),
                     [title |-> list[n].title, content |-> list[n].content,
                      importance |-> vs[n]])
         ELSE KeptItems(list, vs, n - 1)

ItemOf(rec) ==
    [title |-> rec.original_title, content |-> rec.original_content,
     importance |-> rec.importance]

\* C2: the output of filter_important_news is exactly the subsequence of the
\* input items whose verdict is HIGH or MEDIUM, in the input's relative order.
C2_FilterIsSubsequence ==
    fpc = "returned" =>
        /\ Len(verdicts) = Len(news_list)
        /\ [k \in 1..Len(important_news) |-> ItemOf(important_news[k])]
               = KeptItems(news_list, verdicts, Len(news_list))

\* two different items were both kept
C2_Witness ==
    /\ fpc = "returned"
    /\ Len(important_news) = 2
    /\ important_news[1].original_title # important_news[2].original_title

\* C3: analyze_news_importance is total: whatever the content and whatever the
\* two model calls do (answer, raise, answer something unparseable), it returns
\* a dict with importance, summary and keywords, and no exception leaves it.
C3_ClassifierTotal ==
    cpc # "idle" =>
        /\ cpc = "returned"
        /\ ~analysis.raised
        /\ DOMAIN analysis.value = {"importance", "summary", "keywords"}

\* both model calls failed (the second by an unparseable reply) and a verdict came back
C3_Witness ==
    /\ cpc = "returned"
    /\ ~structured.ok
    /\ response.ok
    /\ re_search(response.text) = << >>
    /\ analysis.value.importance = "FAILED"

\* C4: when FETCH gets an empty batch, or the feed adapter raises, the run ends
\* without entering CLASSIFY, COMPOSE or PERSIST, and its report has
\* important_news_count = 0, saved_count = 0 and a non-empty error.
C4_EmptyFetchShortCircuits ==
    (pc = "done" /\ (fetched.raised \/ fetched.news = << >>)) =>
        /\ visits = [NoVisits EXCEPT !["fetch_news"] = 1, !["END"] = 1]
        /\ report.returned
        /\ report.important_news_count = 0
        /\ report.saved_count = 0
        /\ report.error # EmptyText

\* a run whose fetch returned the empty list has reported
C4_Witness ==
    /\ pc = "done"
    /\ ~fetched.raised
    /\ fetched.news = << >>
    /\ visits["fetch_news"] = 1

\* C5: every call of NewsAgent.run terminates, reaches END exactly once and
\* returns a report, whatever fetch, classification, composition and
\* persistence do.
C5_RunTerminatesWithReport ==
    /\ [](pc \notin {"idle", "done"} => <>(pc = "done"))
    /\ [](pc = "done" => (visits["END"] = 1 /\ report.returned))
    /\ [](visits["END"] <= 1)

\* a run that went through every node, one storage call raising, has returned
C5_Witness ==
    /\ pc = "done"
    /\ report.returned
    /\ visits["save_to_database"] = 1
    /\ state.error # EmptyText

\* C6: whatever runs happened and whatever the existence checks did, table news
\* never holds two rows of the same title.
C6_TitlesUnique ==
    \A r \in DOMAIN news_table : TitleCount(news_table, r.title) <= 1

\* the rows this run added under a title
Added(title) == TitleCount(news_table, title) - TitleCount(table_at_start, title)

\* the titles that occur twice in the run's important_news
TwiceListed ==
    {state.important_news[m].original_title : m \in
        {x \in 1..Len(state.important_news) :
            \E y \in 1..Len(state.important_news) :
                /\ x # y
                /\ state.important_news[x].original_title
                       = state.important_news[y].original_title}}

\* C7: when the run's important_news holds one title twice, PERSIST stores one
\* row of that title, not two: the second occurrence is skipped.
C7_SameTitleStoredOnce ==
    \A title \in TwiceListed : Added(title) <= 1

\* C8: at no moment are two executions of NewsAgent.run in progress, whether
\* they come from the scheduler thread, from start's immediate run or from the
\* run-once endpoint.
C8_RunsNeverOverlap == RunsInProgress <= 1

\* the calls so far are start(run_immediately=True) and then stop() by one
\* caller, both returned, and no job has come due
StartThenStop ==
    /\ Len(calls) = 2
    /\ calls[1].op = "start" /\ calls[1].run_immediately
    /\ calls[2].op = "stop"
    /\ calls[1].who = calls[2].who
    /\ \A c \in Callers : At(c, "idle")
    /\ \A k \in 1..Len(jobs) : ~jobs[k].due

\* C9: after start(run_immediately=True) followed at once by stop(), one run
\* has completed and the scheduler thread has ended.
C9_StartStopJoinsThread ==
    StartThenStop => (completed = 1 /\ scheduler_thread # 0 /\ ~Alive(scheduler_thread))

\* C10: whatever start and stop calls were made, and however they interleave,
\* the schedule holds at most one recurring job.
C10_AtMostOneJob == Len(jobs) <= 1

\* text a begins text b
StartsWith(b, a) == Len(a) <= Len(b) /\ SubSeq(b, 1, Len(a)) = a

\* text a occurs in text b
Contains(b, a) == \E k \in 0..(Len(b) - Len(a)) : SubSeq(b, k + 1, k + Len(a)) = a

\* C11: merge_summaries(existing, new_summary, []) returns exactly existing,
\* whatever existing and new_summary are, and the model is not called.
C11_MergeNothingIsIdentity ==
    (mpc # "idle" /\ new_important_news = << >>) =>
        /\ mpc = "returned"
        /\ merged.value = existing_summary
        /\ merge_reply = NotCalled

\* a call with a non-empty digest, a different new summary and no records returned
C11_Witness ==
    /\ mpc = "returned"
    /\ new_important_news = << >>
    /\ existing_summary = <<"d0", "NL", "d1">>
    /\ new_summary = <<"d2">>

\* C12: with new records and a failing merge model call, merge_summaries does
\* not raise and returns a text that begins with existing and holds
\* new_summary verbatim.
C12_MergeFallbackKeepsBoth ==
    (mpc # "idle" /\ new_important_news # << >> /\ ~merge_reply.ok) =>
        /\ mpc = "returned"
        /\ ~merged.raised
        /\ StartsWith(merged.value, existing_summary)
        /\ Contains(merged.value, new_summary)

\* the model call failed on two records, digest and new summary both non-empty
C12_Witness ==
    /\ mpc = "returned"
    /\ Len(new_important_news) = 2
    /\ ~merge_reply.ok
    /\ existing_summary = <<"d0">>
    /\ new_summary = <<"d1">>

\* C13: on an empty record list create_final_summary gives the fixed sentinel
\* and calls no model; a run whose important_news is empty leaves table news as
\* it found it.
C13_NoNewsNoDigest ==
    (visits["create_summary"] = 1 /\ state.important_news = << >>) =>
        /\ state.final_summary = Sentinel
        /\ composed = NotCalled
        /\ db_calls = << >>
        /\ news_table = table_at_start

\* a run over a non-empty batch with nothing important went through PERSIST
\* and returned, the table already holding rows
C13_Witness ==
    /\ pc = "done"
    /\ state.raw_news # << >>
    /\ state.important_news = << >>
    /\ visits["save_to_database"] = 1
    /\ news_table # EmptyBag

\* "今日重要新闻总结：\n" and each record's summary behind a backquote, one a line
SummaryList(records) ==
    <<"important news of today:", "NL">> \o JoinSummaries(records, Len(records))

\* C14: when the digest model call fails on a non-empty record list,
\* create_final_summary does not raise: final_summary is the list of the
\* records' summaries, error stays empty and the run goes on to PERSIST.
C14_ComposeFailureDegrades ==
    (visits["create_summary"] = 1 /\ state.important_news # << >> /\ ~composed.ok) =>
        /\ state.final_summary = SummaryList(state.important_news)
        /\ pc # "save_to_database" => visits["save_to_database"] = 1
        /\ pc = "save_to_database" => state.error = EmptyText

\* the model call failed on two records and PERSIST stored the degraded digest
C14_Witness ==
    /\ pc = "done"
    /\ Len(state.important_news) = 2
    /\ ~composed.ok
    /\ state.error = EmptyText
    /\ \E r \in DOMAIN news_table :
           r.title = summary_title /\ r.content = SummaryList(state.important_news)

\* C15: a FAILED verdict does not abort filter_important_news: the call does
\* not raise, every item of the batch is classified once, and an item whose
\* verdict is HIGH or MEDIUM is in the result also when an item before it failed.
C15_FailedVerdictSkipsOneItem ==
    /\ fpc # "raised"
    /\ fpc \in {"loop", "returned"} => Len(verdicts) = i - 1
    /\ fpc = "returned" =>
           /\ Len(verdicts) = Len(news_list)
           /\ \A k \in 1..Len(news_list) :
                  (verdicts[k] \in {"HIGH", "MEDIUM"}
                       /\ \E j \in 1..(k - 1) : verdicts[j] = "FAILED")
                  => \E m \in 1..Len(important_news) :
                         /\ important_news[m].original_title = news_list[k].title
                         /\ important_news[m].original_content = news_list[k].content
                         /\ important_news[m].importance = verdicts[k]

\* the first item failed, the second is HIGH and was kept
C15_Witness ==
    /\ fpc = "returned"
    /\ Len(news_list) = 2
    /\ verdicts = <<"FAILED", "HIGH">>
    /\ Len(important_news) = 1

\* the existence checks PERSIST made for records (not for the digest row)
RecordChecks ==
    SelectSeq(db_calls, LAMBDA c : c.op = "check" /\ c.title # summary_title)

\* C16: in PERSIST a failure or an exception at one record does not stop the
\* others: every record is checked, the digest row is attempted when there is a
\* digest, and saved_count is the number of rows the run inserted.
C16_PersistFailureIsPerRecord ==
    (pc = "done" /\ visits["save_to_database"] = 1) =>
        /\ Len(RecordChecks) = Len(state.important_news)
        /\ (state.final_summary # EmptyText /\ state.final_summary # Sentinel) =>
               \E n \in 1..Len(db_calls) :
                   db_calls[n].op = "check" /\ db_calls[n].title = summary_title
        /\ report.saved_count = BagCardinality(news_table) - BagCardinality(table_at_start)

\* both tiers of the call failed: the structured call raised, and the json-mode
\* call raised, answered no JSON object, or answered one that does not parse
BothTiersFailed ==
    /\ cpc # "idle"
    /\ ~structured.ok
    /\ _analyze_with_json_mode(news_content, response).raised

\* C17: when both tiers fail the classifier returns importance FAILED with, as
\* summary, the first 200 characters of the raw content.
C17_FailedSummaryIsContentPrefix ==
    BothTiersFailed =>
        /\ analysis.value.importance = "FAILED"
        /\ analysis.value.summary = Prefix(news_content, 200)

\* C18: in one call the json-mode tier is invoked exactly when the structured
\* tier failed, once and after it, and FAILED is returned only when both tiers
\* failed.
C18_FallbackOnlyAfterStructuredFailure ==
    cpc # "idle" =>
        /\ analysis.calls \in {<<"structured">>, <<"structured", "json">>}
        /\ (analysis.calls = <<"structured", "json">>) <=> ~structured.ok
        /\ (response # NotCalled) <=> ~structured.ok
        /\ analysis.value.importance = "FAILED" => BothTiersFailed

\* C19: every verdict the classifier returns has an importance among HIGH,
\* MEDIUM, LOW and FAILED.
C19_ImportanceIsClosed ==
    cpc # "idle" => analysis.value.importance \in {"HIGH", "MEDIUM", "LOW", "FAILED"}

\* C20: in every report saved_count is at most important_news_count + 1,
\* whatever the batch, the rows already stored and the outcomes of the inserts.
C20_SavedCountBounded ==
    /\ saved_count <= Len(state.important_news) + 1
    /\ report.returned => report.saved_count <= report.important_news_count + 1

\* a later run, over a table that holds rows, stored both its records and the digest
C20_Witness ==
    /\ pc = "done"
    /\ runs = 2
    /\ table_at_start # EmptyBag
    /\ report.important_news_count = 2
    /\ report.saved_count = 3

\* C21: once state.error is non-empty, no later step of the same run changes
\* important_news, final_summary or saved_count of the run state, whichever
\* stage set the error.
C21_ErrorFreezesState ==
    [][(state.error # EmptyText /\ runs' = runs) =>
           /\ state'.important_news = state.important_news
           /\ state'.final_summary = state.final_summary
           /\ state'.saved_count = state.saved_count]_vars

\* the rows of a table that are digests of the current date
DigestRows(table) == {r \in DOMAIN table : r.title = summary_title}

\* the records of the run whose titles table news did not hold when it started
NewRecordsOfRun ==
    {m \in 1..Len(state.important_news) :
        TitleCount(table_at_start, state.important_news[m].original_title) = 0}

\* C22: when a digest row of the current date is stored already and a later
\* run finds important records that are new, the stored digest is brought up
\* to date: after the run the digest rows are not what they were before it.
C22_DigestFollowsNewRecords ==
    (/\ pc = "done"
     /\ state.error = EmptyText
     /\ DigestRows(table_at_start) # {}
     /\ NewRecordsOfRun # {}) =>
        DigestRows(news_table) # DigestRows(table_at_start)

\* C23: the run-once endpoint runs the pipeline once and answers how that run
\* went: the answer says "completed" exactly when the run it triggered
\* returned a report with success true.
C23_RunOnceReportsOutcome ==
    [][\A c \in Callers :
           (ctx[c].pc = "once_job_run" /\ ctx'[c].pc # "once_job_run") =>
               (http'.status = "completed" <=> last_run' = "success")]_vars

\* the ids of the registered jobs, in order
JobIds(js) == [k \in 1..Len(js) |-> js[k].id]

\* C24: a run that fails (a report with success false, or an exception inside
\* the run) leaves the scheduler as a successful run does: is_running, the
\* registered jobs and the web server's scheduler_running flag are after the
\* run what they were before it, start() goes on to start the background
\* thread, and the thread reschedules the job and stays in its loop, so that
\* later scheduled runs take place.
C24_FailedRunKeepsSchedulerState ==
    [][(completed' # completed /\ last_run' # "success") =>
           /\ is_running' = is_running
           /\ scheduler_running' = scheduler_running
           /\ stop_event' = stop_event
           /\ JobIds(jobs') = JobIds(jobs)
           /\ \A c \in Callers :
                  ctx[c].pc = "start_job_run" => ctx'[c].pc \in {"start_job_run", "start_flag"}
           /\ \A t \in Threads :
                  (threads[t].st = "job_run" /\ threads'[t] # threads[t]) =>
                      /\ threads'[t].st \in {"sleep", "job"}
                      /\ jobs' = Rescheduled(jobs, Head(threads[t].todo))]_vars

\* the web server started its scheduler, the immediate run failed, and the
\* background thread is in the next scheduled run
C24_Witness ==
    /\ Len(calls) = 1
    /\ calls[1].op = "serve"
    /\ last_run = "failure"
    /\ completed = 1
    /\ is_running
    /\ scheduler_running
    /\ \E t \in Threads : threads[t].st = "job_run"

\* C25: when the feed adapter raises inside FETCH, the node turns the exception
\* into a non-empty error; the run ends after FETCH, no other node being
\* entered, and returns a report with success false.
C25_FetchExceptionBecomesError ==
    (fetched.raised /\ pc # "idle") =>
        /\ state.error # EmptyText
        /\ pc \in {"END", "done"}
        /\ \A n \in Nodes \ {"fetch_news"} : visits[n] = 0
        /\ pc = "done" =>
               /\ report.returned
               /\ ~report.success
               /\ report.error = state.error

\* a run whose fetch raised has returned its report
C25_Witness ==
    /\ pc = "done"
    /\ fetched.raised
    /\ report.returned
    /\ visits["END"] = 1

\* C26: every item get_processed_news returns has a non-empty title and a
\* non-empty content, whatever the items of the feed are, dicts or not.
C26_ProcessedItemsNonEmpty ==
    \A k \in 1..Len(processed_news) :
        /\ processed_news[k].title # EmptyText
        /\ processed_news[k].content # EmptyText

\* C27: in PERSIST every call of insert_news follows directly on the call of
\* check_news_exists for the same title, in the same run, that answered False.
C27_InsertFollowsItsCheck ==
    \A n \in 1..Len(db_calls) :
        db_calls[n].op = "insert" =>
            /\ n > 1
            /\ db_calls[n - 1].op = "check"
            /\ db_calls[n - 1].title = db_calls[n].title
            /\ db_calls[n - 1].answer = "False"

\* a later run skipped a record that is stored, then checked and inserted
\* another one and the digest
C27_Witness ==
    /\ runs = 2
    /\ Len(db_calls) = 5
    /\ db_calls[1].op = "check" /\ db_calls[1].answer = "True"
    /\ db_calls[2].op = "check" /\ db_calls[2].answer = "False"
    /\ db_calls[3].op = "insert" /\ db_calls[3].title = db_calls[2].title
    /\ db_calls[5].op = "insert" /\ db_calls[5].title = summary_title

\* the caller's call number k has returned
Returned(k) == At(calls[k].who, "idle") \/ CallOf(calls[k].who) # k

\* a call of stop() has returned and start has not been called since
StopReturnedLast ==
    \E k \in 1..Len(calls) :
        /\ calls[k].op = "stop"
        /\ Returned(k)
        /\ \A m \in (k + 1)..Len(calls) : calls[m].op \notin {"start", "serve"}

\* C28: once stop() has returned, and until start is called again, is_running
\* is false, no job is registered, and the background thread begins no run.
C28_NothingRunsAfterStop ==
    [][StopReturnedLast =>
           /\ ~is_running
           /\ jobs = << >>
           /\ \A t \in Threads :
                  threads'[t].st = "job_run" => threads[t].st = "job_run"]_vars

\* the nodes entered so far are exactly those of S, each once
Entered(S) ==
    \A n \in Nodes : visits[n] = IF n \in S THEN 1 ELSE 0

\* C29: the nodes a run enters are fetch_news alone, or fetch_news,
\* analyze_news, create_summary, save_to_database in that order, each once;
\* once analyze_news has been entered, create_summary and save_to_database
\* are entered too, whether or not an error was recorded.
C29_StagesInOrder ==
    /\ pc = "fetch_news" => Entered({})
    /\ pc = "analyze_news" => Entered({"fetch_news"})
    /\ pc = "create_summary" => Entered({"fetch_news", "analyze_news"})
    /\ pc = "save_to_database" => Entered({"fetch_news", "analyze_news", "create_summary"})
    /\ pc \in {"check_news", "insert_news", "check_summary", "insert_summary",
                "save_return"} => Entered(Nodes)
    /\ pc \in {"END", "done"} => (Entered({"fetch_news"}) \/ Entered(Nodes))

\* a run in which CLASSIFY recorded an error went through COMPOSE and PERSIST
C29_Witness ==
    /\ pc = "done"
    /\ Entered(Nodes)
    /\ report.error = <<"AI analysis failed:", "e">>

\* PERSIST called insert_news for the digest row in this run
DigestInsertCalled ==
    \E n \in 1..Len(db_calls) :
        db_calls[n].op = "insert" /\ db_calls[n].title = summary_title

\* C30: PERSIST inserts the digest row exactly when final_summary is neither
\* empty nor the no-news sentinel and table news holds no row with the digest
\* title of the date; whatever the runs of one date, table news holds at most
\* one digest row of that date.
C30_DigestRowIffNeeded ==
    /\ TitleCount(news_table, summary_title) <= 1
    /\ (pc = "done" /\ visits["save_to_database"] = 1) =>
           (DigestInsertCalled <=>
                /\ state.final_summary # EmptyText
                /\ state.final_summary # Sentinel
                /\ TitleCount(table_at_start, summary_title) = 0)

\* a call of start() has set is_running and has not yet returned
StartInProgress == \E c \in Callers : At(c, "start_thread")

\* C31: whenever is_running is true and start() has returned, the thread of
\* scheduler_thread is alive and polling the schedule: it has not left the
\* loop of _run_scheduler.  This holds after start(), stop(), start() too.
C31_RunningMeansPolling ==
    (is_running /\ ~StartInProgress) => Alive(scheduler_thread)

\* C32: a call of start() that finds is_running true returns at its first
\* statement: the schedule's jobs, the runs begun and completed, the threads,
\* scheduler_thread and the two flags are what they were.
C32_StartWhileRunningChangesNothing ==
    [][\A c \in Callers :
          (At(c, "start_check") /\ is_running /\ ctx'[c] # ctx[c]) =>
              /\ ctx'[c] = StartReturned(c)
              /\ UNCHANGED <<jobs, started, completed, threads, scheduler_thread,
                             is_running, stop_event>>]_vars

\* two calls of start by one caller, the second with run_immediately, have
\* returned: one job, the first call's, one thread, no run
C32_Witness ==
    /\ Len(calls) = 2
    /\ \A k \in 1..2 : calls[k].op = "start" /\ calls[k].who = "c1"
    /\ ~calls[1].run_immediately /\ calls[2].run_immediately
    /\ At("c1", "idle")
    /\ is_running
    /\ JobIds(jobs) = <<1>>
    /\ Cardinality(Born) = 1
    /\ started = 0

\* the json-mode tier answered and json.loads gave a dict
JsonModeParsed ==
    /\ cpc = "returned"
    /\ ~structured.ok
    /\ response.ok
    /\ re_search(response.text) # << >>
    /\ ~json_loads(re_search(response.text)).raised

\* the dict json.loads gave
result_dict == json_loads(re_search(response.text)).value

\* C34: when the json-mode tier parsed an object, each of importance, summary
\* and keywords of the verdict is the object's value for that key if the key is
\* present, and otherwise the default: LOW for importance, the empty string for
\* summary and keywords.
C34_JsonModeDefaults ==
    JsonModeParsed =>
        /\ analysis.value.importance =
               IF "importance" \in DOMAIN result_dict THEN result_dict["importance"]
               ELSE "LOW"
        /\ analysis.value.summary =
               IF "summary" \in DOMAIN result_dict THEN result_dict["summary"]
               ELSE EmptyText
        /\ analysis.value.keywords =
               IF "keywords" \in DOMAIN result_dict THEN result_dict["keywords"]
               ELSE EmptyText

\* an object with a summary and no importance or keywords gave a verdict with
\* that summary, importance LOW and empty keywords
C34_Witness ==
    /\ JsonModeParsed
    /\ DOMAIN result_dict = {"summary"}
    /\ analysis.value = [importance |-> "LOW", summary |-> <<"s1">>,
                         keywords |-> EmptyText]

\* C33: in every report of NewsAgent.run success is true exactly when error is
\* empty; a run that ended after FETCH has success false, and so has a run in
\* which a stage recorded an error, for an error once recorded stays until
\* the run has ended.
C33_SuccessIffNoError ==
    /\ [](report.returned =>
             /\ report.success <=> (report.error = EmptyText)
             /\ visits["analyze_news"] = 0 => ~report.success
             /\ state.error # EmptyText => ~report.success)
    /\ [][(state.error # EmptyText /\ pc # "done") => state'.error # EmptyText]_vars

\* a run in which PERSIST recorded an error after a record was saved has
\* reported success false
C33_Witness ==
    /\ pc = "done"
    /\ report.returned
    /\ ~report.success
    /\ report.error # EmptyText
    /\ visits["save_to_database"] = 1
    /\ report.saved_count > 0

\* the item the loop of get_processed_news has just handled is a dict with no
\* key among the title aliases and the content aliases
NoAliasItem ==
    /\ raw_item.dict
    /\ \A k \in 1..Len(title_fields) : title_fields[k] \notin DOMAIN raw_item.fields
    /\ \A k \in 1..Len(content_fields) : content_fields[k] \notin DOMAIN raw_item.fields

\* C35: a dict item with no title alias and no content alias is appended to
\* the processed list with the item's string form as content and a prefix of
\* that content as title, both non-empty.
C35_NoAliasItemEntersPipeline ==
    NoAliasItem =>
        /\ processed_news # << >>
        /\ LET last == processed_news[Len(processed_news)]
           IN  /\ last.content = DictStr(raw_item.fields, Len(ItemKeys))
               /\ last.title = Prefix(last.content, TitlePrefixLen) \o <<"...">>
               /\ last.title # EmptyText /\ last.content # EmptyText

=============================================================================
